---- MODULE Spec2Model ----
(***************************************************************************)
(* A model of src/main.py: the interactive loop of main, the pipeline of   *)
(* save_csv (load, column validation, fuzzy grouping, normalisation,       *)
(* institution table, team table) and fuzzy_grouping's greedy clustering.  *)
(*                                                                         *)
(* Text cells are TLA+ strings.  The string methods the program calls      *)
(* (str.strip, str.upper, str.capitalize) and the scorer it hands to       *)
(* process.extractOne (fuzz.token_sort_ratio) are computed character by    *)
(* character, for ASCII text.                                              *)
(***************************************************************************)
EXTENDS Integers, Sequences, FiniteSets, TLC

(***************************************************************************)
(* Characters and the string methods of the Python runtime.                *)
(***************************************************************************)
LowerChars == "abcdefghijklmnopqrstuvwxyz"
UpperChars == "ABCDEFGHIJKLMNOPQRSTUVWXYZ"
DigitChars == "0123456789"
\* The characters of the model in code point order (str comparison in sorted()).
CodePointOrder == " ." \o DigitChars \o UpperChars \o "_" \o LowerChars

CharAt(s, i) == SubSeq(s, i, i)

Chars(str) == {CharAt(str, i) : i \in 1..Len(str)}

\* The function that maps the i-th character of from to the i-th of to.
RECURSIVE CharMap(_, _)
CharMap(from, to) ==
    IF from = "" THEN [c \in {} |-> ""]
    ELSE (Head(from) :> Head(to)) @@ CharMap(Tail(from), Tail(to))

RECURSIVE RankMap(_, _)
RankMap(str, n) ==
    IF str = "" THEN [c \in {} |-> 0]
    ELSE (Head(str) :> n) @@ RankMap(Tail(str), n + 1)

ToLower == CharMap(UpperChars, LowerChars)
ToUpper == CharMap(LowerChars, UpperChars)
CodePoint == RankMap(CodePointOrder, 1)
WordChars == Chars(LowerChars \o UpperChars \o DigitChars \o "_")

Ord(c) == CodePoint[c]

LowerChar(c) == IF c \in DOMAIN ToLower THEN ToLower[c] ELSE c

UpperChar(c) == IF c \in DOMAIN ToUpper THEN ToUpper[c] ELSE c

IsSpace(c) == c = " "

\* \w of the re module: letters, digits and the underscore.
IsWordChar(c) == c \in WordChars

RECURSIVE lower(_)
lower(s) == IF s = "" THEN "" ELSE LowerChar(Head(s)) \o lower(Tail(s))

RECURSIVE upper(_)
upper(s) == IF s = "" THEN "" ELSE UpperChar(Head(s)) \o upper(Tail(s))

RECURSIVE lstrip(_)
lstrip(s) == IF s # "" /\ IsSpace(Head(s)) THEN lstrip(Tail(s)) ELSE s

RECURSIVE rstrip(_)
rstrip(s) ==
    IF s # "" /\ IsSpace(CharAt(s, Len(s))) THEN rstrip(SubSeq(s, 1, Len(s) - 1)) ELSE s

strip(s) == rstrip(lstrip(s))

\* str.capitalize: first character upper case, the rest lower case.
capitalize(s) == IF s = "" THEN "" ELSE UpperChar(Head(s)) \o lower(Tail(s))

(***************************************************************************)
(* fuzz.token_sort_ratio as process.extractOne applies it: both strings    *)
(* go through utils.full_process, their tokens are sorted and joined, and  *)
(* the joined strings are compared by difflib's SequenceMatcher ratio.     *)
(***************************************************************************)
RECURSIVE replace_non_word(_)
replace_non_word(s) ==
    IF s = "" THEN ""
    ELSE (IF IsWordChar(Head(s)) THEN Head(s) ELSE " ") \o replace_non_word(Tail(s))

full_process(s) == strip(lower(replace_non_word(s)))

\* str.split(): the maximal runs of non-space characters, in order.
RECURSIVE split(_)
split(s) ==
    LET t == lstrip(s)
        n == IF \E i \in 1..Len(t) : IsSpace(CharAt(t, i))
             THEN (CHOOSE i \in 1..Len(t) :
                     /\ IsSpace(CharAt(t, i))
                     /\ \A j \in 1..(i - 1) : ~IsSpace(CharAt(t, j))) - 1
             ELSE Len(t)
    IN  IF t = "" THEN <<>>
        ELSE <<SubSeq(t, 1, n)>> \o split(SubSeq(t, n + 1, Len(t)))

RECURSIVE StrLess(_, _)
StrLess(a, b) ==
    IF a = "" THEN b # ""
    ELSE IF b = "" THEN FALSE
    ELSE IF Head(a) = Head(b) THEN StrLess(Tail(a), Tail(b))
    ELSE Ord(Head(a)) < Ord(Head(b))

RECURSIVE Insert(_, _)
Insert(t, sortedSeq) ==
    IF sortedSeq = <<>> THEN <<t>>
    ELSE IF StrLess(t, Head(sortedSeq)) THEN <<t>> \o sortedSeq
    ELSE <<Head(sortedSeq)>> \o Insert(t, Tail(sortedSeq))

RECURSIVE sorted(_)
sorted(tokens) ==
    IF tokens = <<>> THEN <<>> ELSE Insert(Head(tokens), sorted(Tail(tokens)))

RECURSIVE join(_)
join(tokens) ==
    IF tokens = <<>> THEN ""
    ELSE IF Len(tokens) = 1 THEN Head(tokens)
    ELSE Head(tokens) \o " " \o join(Tail(tokens))

process_and_sort(s) == strip(join(sorted(split(full_process(s)))))

RECURSIVE CommonPrefixLen(_, _, _, _)
CommonPrefixLen(a, i, b, j) ==
    IF i > Len(a) \/ j > Len(b) \/ CharAt(a, i) # CharAt(b, j) THEN 0
    ELSE 1 + CommonPrefixLen(a, i + 1, b, j + 1)

\* SequenceMatcher.find_longest_match: the longest common block, the earliest
\* in a among the longest, the earliest in b among those.
find_longest_match(a, b) ==
    LET blocks == {<<i, j, CommonPrefixLen(a, i, b, j)>> :
                       i \in 1..Len(a), j \in 1..Len(b)}
    IN  CHOOSE p \in blocks : \A q \in blocks :
            \/ p[3] > q[3]
            \/ p[3] = q[3] /\ p[1] < q[1]
            \/ p[3] = q[3] /\ p[1] = q[1] /\ p[2] <= q[2]

\* The total size of SequenceMatcher.get_matching_blocks.
RECURSIVE matches(_, _)
matches(a, b) ==
    IF a = "" \/ b = "" THEN 0
    ELSE LET m == find_longest_match(a, b)
             i == m[1]
             j == m[2]
             k == m[3]
         IN  IF k = 0 THEN 0
             ELSE k + matches(SubSeq(a, 1, i - 1), SubSeq(b, 1, j - 1))
                    + matches(SubSeq(a, i + k, Len(a)), SubSeq(b, j + k, Len(b)))

\* utils.intr(100 * m.ratio()): round(200 * M / T), halves to the even integer.
intr_ratio(M, T) ==
    LET q == (200 * M) \div T
        r == (200 * M) % T
    IN  IF 2 * r < T THEN q
        ELSE IF 2 * r > T THEN q + 1
        ELSE IF q % 2 = 0 THEN q ELSE q + 1

\* fuzz.ratio with its decorators: equal strings score 100, an empty one scores 0.
ratio(s1, s2) ==
    IF s1 = s2 THEN 100
    ELSE IF s1 = "" \/ s2 = "" THEN 0
    ELSE intr_ratio(matches(s1, s2), Len(s1) + Len(s2))

token_sort_ratio(s1, s2) == ratio(process_and_sort(s1), process_and_sort(s2))

(***************************************************************************)
(* Program constants.                                                      *)
(***************************************************************************)
state_abbreviations ==
    ("AL" :> "Alabama") @@ ("AK" :> "Alaska") @@ ("AZ" :> "Arizona") @@ ("AR" :> "Arkansas")
    @@ ("CA" :> "California") @@ ("CO" :> "Colorado") @@ ("CT" :> "Connecticut")
    @@ ("DE" :> "Delaware") @@ ("FL" :> "Florida") @@ ("GA" :> "Georgia")
    @@ ("HI" :> "Hawaii") @@ ("ID" :> "Idaho") @@ ("IL" :> "Illinois")
    @@ ("IN" :> "Indiana") @@ ("IA" :> "Iowa") @@ ("KS" :> "Kansas")
    @@ ("KY" :> "Kentucky") @@ ("LA" :> "Louisiana") @@ ("ME" :> "Maine")
    @@ ("MD" :> "Maryland") @@ ("MA" :> "Massachusetts") @@ ("MI" :> "Michigan")
    @@ ("MN" :> "Minnesota") @@ ("MS" :> "Mississippi") @@ ("MO" :> "Missouri")
    @@ ("MT" :> "Montana") @@ ("NE" :> "Nebraska") @@ ("NV" :> "Nevada")
    @@ ("NH" :> "New Hampshire") @@ ("NJ" :> "New Jersey") @@ ("NM" :> "New Mexico")
    @@ ("NY" :> "New York") @@ ("NC" :> "North Carolina") @@ ("ND" :> "North Dakota")
    @@ ("OH" :> "Ohio") @@ ("OK" :> "Oklahoma") @@ ("OR" :> "Oregon")
    @@ ("PA" :> "Pennsylvania") @@ ("RI" :> "Rhode Island") @@ ("SC" :> "South Carolina")
    @@ ("SD" :> "South Dakota") @@ ("TN" :> "Tennessee") @@ ("TX" :> "Texas")
    @@ ("UT" :> "Utah") @@ ("VT" :> "Vermont") @@ ("VA" :> "Virginia")
    @@ ("WA" :> "Washington") @@ ("WV" :> "West Virginia") @@ ("WI" :> "Wisconsin")
    @@ ("WY" :> "Wyoming")

threshold == 87

required_columns ==
    {"Institution", "City", "State/Province", "Country", "Team Number", "Advisor",
     "Problem", "Ranking"}

institutions_path == "results/Institutions.csv"
teams_path == "results/Teams.csv"
sample_path == "data/2015.csv"

(***************************************************************************)
(* Bounds and the inputs the model draws from.                             *)
(***************************************************************************)
MaxRows == 3
MaxInputs == 2

\* A missing cell.  read_csv parses the cell texts NaN, NA and the empty cell
\* as missing, so no text cell of a loaded table equals this value.
NaN == "NaN"

Row(inst, city, state, country, team, advisor, problem, ranking) ==
    ("Institution" :> inst) @@ ("City" :> city) @@ ("State/Province" :> state)
    @@ ("Country" :> country) @@ ("Team Number" :> team) @@ ("Advisor" :> advisor)
    @@ ("Problem" :> problem) @@ ("Ranking" :> ranking)

\* Raw records.  The Institution values score, under token_sort_ratio:
\*   Reed College / " college REED" 100, Reed College / Reed Collage 92,
\*   Reed College / Read Collage 83, Reed College / Red Collage 87,
\*   Reed Collage / Read Collage 92, Reed Collage / Red Collage 96,
\*   Read Collage / Red Collage 96.
RowPool ==
    { Row("Reed College", "portland", "CA", "USA", 101, " ann LEE", "A", "meritorious winner"),
      Row(" college REED", "Portland ", " Ca ", "usa", 102, "Bob Ray", "b", "Finalist"),
      Row("Reed Collage", "PORTLAND", NaN, " USA", 103, "cy Orr ", "A", "successful participant"),
      Row("Read Collage", "reading", "Xx", "UK", 104, "Di Fox", "B", "Honorable mention"),
      Row("Red Collage", " red deer", "bc", "Canada", 105, "ed Poe", "A", "finalist ") }

RECURSIVE SeqsUpTo(_, _)
SeqsUpTo(S, n) ==
    IF n = 0 THEN {<<>>}
    ELSE LET shorter == SeqsUpTo(S, n - 1)
         IN  shorter \cup {Append(s, e) : s \in {t \in shorter : Len(t) = n - 1}, e \in S}

\* What pd.read_csv can return: a table (its column names and its rows), or an
\* exception (the file is missing or cannot be parsed).
LoadFailure == [ok |-> FALSE, error |-> "No such file or directory"]
Table(columns, rows) == [ok |-> TRUE, columns |-> columns, rows |-> rows]

SmallTable ==
    Table(required_columns \cup {"Year"},
          << Row("Reed College", "portland", "ca", "USA", 1, "ann lee", "A", "Finalist")
                 @@ ("Year" :> 2015),
             Row("Reed Collage", "Portland", " new York ", "USA", 2, "bob ray", "B", "Finalist")
                 @@ ("Year" :> 2015) >>)

\* The files behind each path the user can name.  The sample file is missing
\* or is any table of at most MaxRows rows of RowPool.
read_csv(path) ==
    CASE path = sample_path ->
            {Table(required_columns, rows) : rows \in SeqsUpTo(RowPool, MaxRows)}
                \cup {LoadFailure}
      [] path = "nofile.csv" -> {LoadFailure}
      [] path = "short.csv" ->
            {Table(required_columns \ {"Ranking"}, <<>>),
             Table({"Institution", "Team Number"}, <<>>)}
      [] path = "small.csv" -> {SmallTable}
      [] OTHER -> {LoadFailure}

UserPaths == {"nofile.csv", "short.csv", "small.csv"}

(***************************************************************************)
(* pandas operations on a column or a list of rows.                        *)
(***************************************************************************)
Column(rows, c) == [i \in 1..Len(rows) |-> rows[i][c]]

\* Series.unique(): the distinct values in order of first occurrence.
RECURSIVE unique(_)
unique(s) ==
    IF s = <<>> THEN <<>>
    ELSE LET init == unique(SubSeq(s, 1, Len(s) - 1))
             last == s[Len(s)]
         IN  IF \E i \in 1..Len(init) : init[i] = last THEN init ELSE Append(init, last)

(***************************************************************************)
(* fuzzy_grouping.  grouped_names is a dict: a sequence of <<key, value>>  *)
(* pairs in insertion order.                                               *)
(***************************************************************************)
keys(d) == [i \in 1..Len(d) |-> d[i][1]]
HasKey(d, k) == \E i \in 1..Len(d) : d[i][1] = k
Get(d, k) == d[CHOOSE i \in 1..Len(d) : d[i][1] = k][2]

\* The Institution values of the model's tables, as read and as normalised.
KnownNames ==
    LET raw == {r["Institution"] : r \in RowPool}
                 \cup {SmallTable.rows[i]["Institution"] : i \in 1..Len(SmallTable.rows)}
    IN  raw \cup {capitalize(strip(n)) : n \in raw}

\* token_sort_ratio tabulated over KnownNames, computed once.
ScoreTable == {<<a, b, token_sort_ratio(a, b)>> : a \in KnownNames, b \in KnownNames}

\* scorer=fuzz.token_sort_ratio
scorer(s1, s2) ==
    IF s1 \in KnownNames /\ s2 \in KnownNames
    THEN (CHOOSE t \in ScoreTable : t[1] = s1 /\ t[2] = s2)[3]
    ELSE token_sort_ratio(s1, s2)

\* process.extractOne(query, choices, scorer=fuzz.token_sort_ratio): every
\* choice is scored and max() returns the first choice with the highest score.
extractOne(query, choices) ==
    LET score(i) == scorer(query, choices[i])
        best == CHOOSE i \in 1..Len(choices) :
                    /\ \A j \in 1..Len(choices) : score(j) <= score(i)
                    /\ \A j \in 1..(i - 1) : score(j) < score(i)
    IN  <<choices[best], score(best)>>

\* Variants of GroupedValue: the comparison score >= threshold, and the
\* matched name stored in place of the value it is stored under.
GroupedValueAtThreshold(d, name) ==
    IF d # <<>>
    THEN LET m == extractOne(name, keys(d))
         IN  IF m[2] >= threshold THEN Get(d, m[1]) ELSE name
    ELSE name

GroupedValueAsMatch(d, name) ==
    IF d # <<>>
    THEN LET m == extractOne(name, keys(d))
         IN  IF m[2] > threshold THEN m[1] ELSE name
    ELSE name

\* One iteration of the loop over names: the value stored under name.
GroupedValue(d, name) ==
    IF d # <<>>
    THEN LET m == extractOne(name, keys(d))
         IN  IF m[2] > threshold THEN Get(d, m[1]) ELSE name
    ELSE name

\* dict assignment d[k] = v: a present key keeps its place, a new one is appended.
DictSet(d, k, v) ==
    IF HasKey(d, k)
    THEN [i \in 1..Len(d) |-> IF d[i][1] = k THEN <<k, v>> ELSE d[i]]
    ELSE Append(d, <<k, v>>)

GroupOne(d, name) == DictSet(d, name, GroupedValue(d, name))

\* The whole loop over names, from an empty dict.
RECURSIVE GroupAll(_)
GroupAll(ns) ==
    IF ns = <<>> THEN <<>>
    ELSE GroupOne(GroupAll(SubSeq(ns, 1, Len(ns) - 1)), ns[Len(ns)])

(***************************************************************************)
(* The normalisation loop of save_csv.                                     *)
(***************************************************************************)
\* Columns read_csv types as integers; every other column holds text (object).
IntegerColumns == {"Team Number", "Year"}
IsObject(column) == column \notin IntegerColumns

fillna(v) == IF v = NaN THEN "Unknown" ELSE v

\* Series.str.strip / Series.str.capitalize leave a missing cell missing.
str_strip(v) == IF v = NaN THEN NaN ELSE strip(v)
str_capitalize(v) == IF v = NaN THEN NaN ELSE capitalize(v)

ExpandState(x) ==
    IF upper(x) \in DOMAIN state_abbreviations /\ Len(x) = 2
    THEN state_abbreviations[upper(x)]
    ELSE x

NormalizeState(v) == ExpandState(str_strip(v))

NormalizeText(v) == str_capitalize(str_strip(v))

\* Variant of NormalizeCell: State/Province capitalised like the other columns.
NormalizeCellAllAlike(column, v) ==
    IF IsObject(column) /\ column # "Country" THEN NormalizeText(v) ELSE v

NormalizeCell(column, v) ==
    IF IsObject(column) /\ column # "Country"
    THEN IF column = "State/Province" THEN NormalizeState(v) ELSE NormalizeText(v)
    ELSE v

NormalizeRows(rows) ==
    [i \in 1..Len(rows) |->
        [c \in DOMAIN rows[i] |->
            NormalizeCell(c, IF c = "State/Province" THEN fillna(rows[i][c]) ELSE rows[i][c])]]

(***************************************************************************)
(* The institution table and the team table.  A table that is written is   *)
(* its column names in order and its rows.                                 *)
(***************************************************************************)
\* DataFrame.drop_duplicates(subset=[c]): the first row of each value of c.
drop_duplicates(rows, c) ==
    LET keep == {i \in 1..Len(rows) : \A j \in 1..(i - 1) : rows[j][c] # rows[i][c]}
        nth(k) == CHOOSE i \in keep : Cardinality({j \in keep : j < i}) = k - 1
    IN  [k \in 1..Cardinality(keep) |-> rows[nth(k)]]

\* Variant of InstitutionId: numbering from 1.
InstitutionIdFromOne(position) == position

\* reset_index twice: the new 0-based index becomes the column Institution ID.
InstitutionId(position) == position - 1

InstitutionColumns ==
    <<"Institution ID", "Institution Name", "City", "State/Province", "Country">>

\* Variant of BuildInstitutions: rows deduplicated and named by Institution.
BuildInstitutionsByInstitution(rows) ==
    LET dd == drop_duplicates(rows, "Institution")
    IN  [i \in 1..Len(dd) |->
            ("Institution ID" :> InstitutionId(i))
            @@ ("Institution Name" :> dd[i]["Institution"])
            @@ ("City" :> dd[i]["City"])
            @@ ("State/Province" :> dd[i]["State/Province"])
            @@ ("Country" :> dd[i]["Country"])]

BuildInstitutions(rows) ==
    LET dd == drop_duplicates(rows, "Grouped Institution")
    IN  [i \in 1..Len(dd) |->
            ("Institution ID" :> InstitutionId(i))
            @@ ("Institution Name" :> dd[i]["Grouped Institution"])
            @@ ("City" :> dd[i]["City"])
            @@ ("State/Province" :> dd[i]["State/Province"])
            @@ ("Country" :> dd[i]["Country"])]

RECURSIVE Flatten(_)
Flatten(ss) == IF ss = <<>> THEN <<>> ELSE Head(ss) \o Flatten(Tail(ss))

\* The missing Institution ID a left merge gives a row without a match (NaN in
\* the numeric column, an empty cell in Teams.csv).
MissingId == -1

\* The column of the team rows the merge joins on.
TeamJoinColumn == "Institution"

\* Variant of LeftMerge: the rows are paired by their index, not by name.
LeftMergeOnIndex(left, right) ==
    [i \in 1..Len(left) |->
        left[i] @@ ("Institution Name" :> left[i][TeamJoinColumn])
                @@ ("Institution ID" :> i - 1)]

\* DataFrame.merge(how='left'): each left row once per matching right row, in
\* order, or once with a missing Institution ID when no right row matches.
LeftMerge(left, right) ==
    Flatten([i \in 1..Len(left) |->
        LET hit(r) == r["Institution Name"] = left[i][TeamJoinColumn]
            found == SelectSeq(right, hit)
        IN  IF found = <<>>
            THEN << left[i] @@ ("Institution Name" :> NaN) @@ ("Institution ID" :> MissingId) >>
            ELSE [k \in 1..Len(found) |->
                    left[i] @@ ("Institution Name" :> found[k]["Institution Name"])
                            @@ ("Institution ID" :> found[k]["Institution ID"])]])

\* The columns of team_details_correct after the merge and the drop.
TeamSelect == <<"Team Number", "Advisor", "Problem", "Ranking", "Institution">>
TeamColumns ==
    SelectSeq(TeamSelect \o <<"Institution Name", "Institution ID">>,
              LAMBDA c : c # "Institution Name")

Project(row, columns) == [c \in {columns[i] : i \in 1..Len(columns)} |-> row[c]]

BuildTeams(rows, insts) ==
    LET left == [i \in 1..Len(rows) |-> Project(rows[i], TeamSelect)]
        merged == LeftMerge(left, insts)
    IN  [i \in 1..Len(merged) |-> Project(merged[i], TeamColumns)]

Absent == [columns |-> <<>>, rows |-> <<>>, exists |-> FALSE]
Written(columns, rows) == [columns |-> columns, rows |-> rows, exists |-> TRUE]

(***************************************************************************)
(* State.                                                                  *)
(***************************************************************************)
VARIABLES
    pc,             \* the statement the program is at
    end_flag,       \* main's loop flag
    file_location,  \* the line input() returned last
    file_path,      \* the argument of the running save_csv call
    data_2015,      \* save_csv's data frame: [columns, rows], or None
    names,          \* fuzzy_grouping's list of unique names
    grouped_names,  \* fuzzy_grouping's dict
    institutions,   \* save_csv's institution rows
    stdout,         \* the line printed last
    files,          \* the two files under results/
    inputs,         \* history: every line read by input()
    calls,          \* history: the argument of every save_csv call
    loaded,         \* history: the table read_csv returned to the running call
    files_at_call   \* history: files when the running save_csv call began

vars == <<pc, end_flag, file_location, file_path, data_2015, names, grouped_names,
          institutions, stdout, files, inputs, calls, loaded, files_at_call>>

None == [columns |-> {}, rows |-> <<>>]

locals == <<data_2015, names, grouped_names, institutions, loaded>>
history == <<inputs, calls>>

Init ==
    /\ pc = "input"
    /\ end_flag = FALSE
    /\ file_location = ""
    /\ file_path = ""
    /\ data_2015 = None
    /\ names = <<>>
    /\ grouped_names = <<>>
    /\ institutions = <<>>
    /\ stdout = <<>>
    /\ files = (institutions_path :> Absent) @@ (teams_path :> Absent)
    /\ inputs = <<>>
    /\ calls = <<>>
    /\ loaded = None
    /\ files_at_call = files

(***************************************************************************)
(* main.                                                                   *)
(***************************************************************************)
\* The call save_csv(path): a fresh frame.
Call(path) ==
    /\ file_path' = path
    /\ calls' = Append(calls, path)
    /\ files_at_call' = files
    /\ pc' = "read_csv"

\* input() returns "1": the sample file.
InputSample ==
    /\ pc = "input" /\ Len(inputs) < MaxInputs
    /\ file_location' = "1"
    /\ inputs' = Append(inputs, "1")
    /\ Call(sample_path)
    /\ UNCHANGED <<end_flag, locals, stdout, files>>

\* input() returns "2": quit.
InputQuit ==
    /\ pc = "input" /\ Len(inputs) < MaxInputs
    /\ file_location' = "2"
    /\ inputs' = Append(inputs, "2")
    /\ stdout' = <<"Quitting...">>
    /\ end_flag' = TRUE
    /\ pc' = "while"
    /\ UNCHANGED <<file_path, locals, files, calls, files_at_call>>

\* input() returns any other line: a path.
InputPath ==
    /\ pc = "input" /\ Len(inputs) < MaxInputs
    /\ \E line \in UserPaths :
        /\ file_location' = line
        /\ inputs' = Append(inputs, line)
        /\ Call(line)
    /\ UNCHANGED <<end_flag, locals, stdout, files>>

\* Variant of EndFlagAfter: the flag set after every call.
EndFlagAlways(location) == TRUE

\* end_flag after save_csv has returned: set in the branch of "1" only.
EndFlagAfter(location) == location = "1"

\* save_csv returns to main: after the sample file the flag is set.
Return ==
    /\ pc = "return"
    /\ end_flag' = EndFlagAfter(file_location)
    /\ data_2015' = None
    /\ names' = <<>>
    /\ grouped_names' = <<>>
    /\ institutions' = <<>>
    /\ loaded' = None
    /\ pc' = "while"
    /\ UNCHANGED <<file_location, file_path, stdout, files, history, files_at_call>>

\* while not end_flag
WhileTest ==
    /\ pc = "while"
    /\ pc' = IF end_flag THEN "done" ELSE "input"
    /\ UNCHANGED <<end_flag, file_location, file_path, locals, stdout, files, history,
                   files_at_call>>

(***************************************************************************)
(* save_csv.                                                               *)
(***************************************************************************)
ReadCsv ==
    /\ pc = "read_csv"
    /\ \E f \in read_csv(file_path) :
        IF f.ok
        THEN /\ data_2015' = [columns |-> f.columns, rows |-> f.rows]
             /\ loaded' = [columns |-> f.columns, rows |-> f.rows]
             /\ pc' = "validate"
             /\ UNCHANGED stdout
        ELSE /\ stdout' = <<"Failed to load data:", f.error>>
             /\ pc' = "return"
             /\ UNCHANGED <<data_2015, loaded>>
    /\ UNCHANGED <<end_flag, file_location, file_path, names, grouped_names, institutions,
                   files, history, files_at_call>>

\* Variant of AfterValidate: the message is printed and the call goes on.
AfterValidateNoReturn(columns) == "fuzzy_grouping"

\* The step after the column check.
AfterValidate(columns) ==
    IF required_columns \subseteq columns THEN "fuzzy_grouping" ELSE "return"

ValidateColumns ==
    /\ pc = "validate"
    /\ pc' = AfterValidate(data_2015.columns)
    /\ stdout' = IF required_columns \subseteq data_2015.columns
                 THEN stdout
                 ELSE <<"Missing required columns:", required_columns \ data_2015.columns>>
    /\ UNCHANGED <<end_flag, file_location, file_path, locals, files, history, files_at_call>>

\* fuzzy_grouping, up to the loop.
FuzzyGroupingStart ==
    /\ pc = "fuzzy_grouping"
    /\ names' = unique(Column(data_2015.rows, "Institution"))
    /\ grouped_names' = <<>>
    /\ pc' = "for_name"
    /\ UNCHANGED <<end_flag, file_location, file_path, data_2015, institutions, stdout,
                   files, history, loaded, files_at_call>>

\* One iteration of the loop over names.
GroupStep ==
    /\ pc = "for_name"
    /\ Len(grouped_names) < Len(names)
    /\ grouped_names' = GroupOne(grouped_names, names[Len(grouped_names) + 1])
    /\ UNCHANGED <<pc, end_flag, file_location, file_path, data_2015, names, institutions,
                   stdout, files, history, loaded, files_at_call>>

\* The loop is over: the column Grouped Institution is added and the frame returned.
GroupingApply ==
    /\ pc = "for_name"
    /\ Len(grouped_names) = Len(names)
    /\ data_2015' =
          [columns |-> data_2015.columns \cup {"Grouped Institution"},
           rows |-> [i \in 1..Len(data_2015.rows) |->
                       data_2015.rows[i] @@
                       ("Grouped Institution" :>
                            Get(grouped_names, data_2015.rows[i]["Institution"]))]]
    /\ pc' = "normalize"
    /\ UNCHANGED <<end_flag, file_location, file_path, names, grouped_names, institutions,
                   stdout, files, history, loaded, files_at_call>>

\* fillna on State/Province, then the loop over the columns.
Normalize ==
    /\ pc = "normalize"
    /\ data_2015' = [data_2015 EXCEPT !.rows = NormalizeRows(data_2015.rows)]
    /\ pc' = "institutions"
    /\ UNCHANGED <<end_flag, file_location, file_path, names, grouped_names, institutions,
                   stdout, files, history, loaded, files_at_call>>

\* The institution table is built and written.
SaveInstitutions ==
    /\ pc = "institutions"
    /\ institutions' = BuildInstitutions(data_2015.rows)
    /\ files' = [files EXCEPT ![institutions_path] =
                    Written(InstitutionColumns, BuildInstitutions(data_2015.rows))]
    /\ pc' = "teams"
    /\ UNCHANGED <<end_flag, file_location, file_path, data_2015, names, grouped_names,
                   stdout, history, loaded, files_at_call>>

\* The team table is merged and written, and the paths are printed.
SaveTeams ==
    /\ pc = "teams"
    /\ files' = [files EXCEPT ![teams_path] =
                    Written(TeamColumns, BuildTeams(data_2015.rows, institutions))]
    /\ stdout' = <<"Files saved:", institutions_path, teams_path>>
    /\ pc' = "return"
    /\ UNCHANGED <<end_flag, file_location, file_path, locals, history, files_at_call>>

Next ==
    \/ InputSample
    \/ InputQuit
    \/ InputPath
    \/ Return
    \/ WhileTest
    \/ ReadCsv
    \/ ValidateColumns
    \/ FuzzyGroupingStart
    \/ GroupStep
    \/ GroupingApply
    \/ Normalize
    \/ SaveInstitutions
    \/ SaveTeams

Spec == Init /\ [][Next]_vars

(***************************************************************************)
(* Properties.                                                             *)
(***************************************************************************)
LastLine == IF stdout = <<>> THEN "" ELSE stdout[1]

\* save_csv has written both files and is about to return.
Succeeded == pc = "return" /\ LastLine = "Files saved:"

InstitutionsFile == files[institutions_path]
TeamsFile == files[teams_path]

\* The canonical name fuzzy_grouping gave the Institution value of input row i.
CanonicalOfRow(i) == Get(grouped_names, loaded.rows[i]["Institution"])

\* C1: after a successful save_csv, every input row's team row carries the
\* Institution ID of the institution row of its canonical name, also when the
\* row's Institution is a merged variant; no team row has a missing ID.
C1_TeamRowHasCanonicalId ==
    Succeeded =>
        /\ Len(TeamsFile.rows) = Len(loaded.rows)
        /\ \A i \in 1..Len(loaded.rows) :
            /\ TeamsFile.rows[i]["Institution ID"] # MissingId
            /\ \E k \in 1..Len(InstitutionsFile.rows) :
                /\ InstitutionsFile.rows[k]["Institution Name"]
                      = capitalize(strip(CanonicalOfRow(i)))
                /\ InstitutionsFile.rows[k]["Institution ID"]
                      = TeamsFile.rows[i]["Institution ID"]

\* The canonical names of the run in order of first appearance in the input.
CanonicalNames == unique([i \in 1..Len(loaded.rows) |-> CanonicalOfRow(i)])

\* C2: the institution table has one row per distinct canonical name, in
\* order of first appearance, and its Institution IDs are 0, 1, ..., n-1.
C2_InstitutionIdsDense ==
    Succeeded =>
        /\ Len(InstitutionsFile.rows) = Len(CanonicalNames)
        /\ Len(CanonicalNames) = Cardinality({grouped_names[k][2] : k \in 1..Len(grouped_names)})
        /\ \A k \in 1..Len(InstitutionsFile.rows) :
            /\ InstitutionsFile.rows[k]["Institution ID"] = k - 1
            /\ InstitutionsFile.rows[k]["Institution Name"]
                  = capitalize(strip(CanonicalNames[k]))

\* A run of save_csv that merged a variant and still wrote two institutions.
C2_Witness ==
    /\ Succeeded
    /\ Len(InstitutionsFile.rows) >= 2
    /\ Len(InstitutionsFile.rows) < Len(names)

\* The k-th processed name, its stored value, and its score against the j-th.
NameAt(k) == grouped_names[k][1]
ValueAt(k) == grouped_names[k][2]
ScoreAt(k, j) == scorer(NameAt(k), NameAt(j))
IsRepresentative(j) == ValueAt(j) = NameAt(j)

\* C3 as claimed: a name is merged exactly when its best score against the
\* representatives seen before it exceeds 87, and then into the best-scoring
\* representative; otherwise it is mapped to itself.
C3_ComparedWithRepresentatives ==
    \A k \in 1..Len(grouped_names) :
        LET reps == {j \in 1..(k - 1) : IsRepresentative(j)}
        IN  IF \E j \in reps : ScoreAt(k, j) > 87
            THEN \E j \in reps :
                    /\ \A l \in reps : ScoreAt(k, l) <= ScoreAt(k, j)
                    /\ ValueAt(k) = NameAt(j)
            ELSE ValueAt(k) = NameAt(k)

\* C3 as amended: a name is merged exactly when its best score against every
\* name processed before it (representative or merged variant) exceeds 87,
\* and then into the representative of the first name with that best score;
\* otherwise it is mapped to itself.
C3_ComparedWithProcessedNames ==
    \A k \in 1..Len(grouped_names) :
        LET prev == 1..(k - 1)
        IN  IF \E j \in prev : ScoreAt(k, j) > 87
            THEN \E j \in prev :
                    /\ \A l \in prev : ScoreAt(k, l) <= ScoreAt(k, j)
                    /\ \A l \in 1..(j - 1) : ScoreAt(k, l) < ScoreAt(k, j)
                    /\ ValueAt(k) = ValueAt(j)
            ELSE ValueAt(k) = NameAt(k)

\* A third name that scores 87 or less against the only representative and
\* more against a merged variant, and is merged; and a name that scores
\* exactly 87 and stays its own representative.
C3_Witness ==
    /\ Len(grouped_names) = 3
    /\ IsRepresentative(1) /\ ~IsRepresentative(2) /\ ~IsRepresentative(3)
    /\ ScoreAt(3, 1) <= 87
    /\ ScoreAt(3, 2) > 87

C3_WitnessBoundary ==
    /\ Len(grouped_names) = 2
    /\ ScoreAt(2, 1) = 87
    /\ IsRepresentative(2)

\* C4: at every point of the loop the dict is total on the processed names,
\* holds one value per name, every value is a processed name mapped to
\* itself, and no later iteration changes an assignment.
C4_MappingInvariant ==
    /\ Len(grouped_names) <= Len(names)
    /\ \A k \in 1..Len(grouped_names) :
        /\ NameAt(k) = names[k]
        /\ \A j \in 1..Len(grouped_names) : NameAt(j) = NameAt(k) => j = k
        /\ \E j \in 1..Len(grouped_names) :
              NameAt(j) = ValueAt(k) /\ ValueAt(j) = NameAt(j)

C4_AssignmentStable ==
    pc = "for_name" /\ pc' = "for_name" =>
        /\ Len(grouped_names') = Len(grouped_names) + 1
        /\ \A k \in 1..Len(grouped_names) : grouped_names'[k] = grouped_names[k]

C4_RepresentativesFixed == []C4_MappingInvariant /\ [][C4_AssignmentStable]_vars

C4_Witness ==
    /\ pc = "for_name"
    /\ Len(grouped_names) = 3
    /\ \E k \in 1..3 : ~IsRepresentative(k)
    /\ \E k \in 2..3 : IsRepresentative(k)

\* C5: every team row's Institution ID is missing or is the ID of exactly
\* one row of the institution table written by the same run.
C5_TeamIdReferencesOneRow ==
    Succeeded =>
        \A i \in 1..Len(TeamsFile.rows) :
            \/ TeamsFile.rows[i]["Institution ID"] = MissingId
            \/ Cardinality({k \in 1..Len(InstitutionsFile.rows) :
                   InstitutionsFile.rows[k]["Institution ID"]
                       = TeamsFile.rows[i]["Institution ID"]}) = 1

C5_Witness ==
    /\ Succeeded
    /\ Len(InstitutionsFile.rows) >= 2
    /\ \E i \in 1..Len(TeamsFile.rows) : TeamsFile.rows[i]["Institution ID"] = MissingId
    /\ \E i \in 1..Len(TeamsFile.rows) : TeamsFile.rows[i]["Institution ID"] = 1

\* The running call failed to load its file, or loaded a table without all
\* the required columns.
LoadFailed == loaded = None
SchemaFailed == loaded # None /\ ~(required_columns \subseteq loaded.columns)

\* C6: a save_csv call whose file cannot be loaded, or whose table lacks a
\* required column, reports the error (naming every missing column) and
\* returns with both output files as they were when it was called.
C6_FailureWritesNothing ==
    pc = "return" =>
        /\ LoadFailed => LastLine = "Failed to load data:" /\ files = files_at_call
        /\ SchemaFailed =>
              /\ stdout = <<"Missing required columns:", required_columns \ loaded.columns>>
              /\ files = files_at_call

\* A schema failure after an earlier call has written both files.
C6_Witness ==
    /\ pc = "return"
    /\ SchemaFailed
    /\ "Ranking" \in stdout[2]
    /\ files[institutions_path].exists /\ files[teams_path].exists

\* The save_csv calls a sequence of input lines leads to.
RECURSIVE CallsOf(_)
CallsOf(lines) ==
    IF lines = <<>> THEN <<>>
    ELSE LET l == lines[Len(lines)]
             before == CallsOf(SubSeq(lines, 1, Len(lines) - 1))
         IN  IF l = "2" THEN before
             ELSE IF l = "1" THEN Append(before, sample_path)
             ELSE Append(before, l)

LastInput == inputs[Len(inputs)]
Terminator(line) == line \in {"1", "2"}

\* C7: "1" runs save_csv on the sample path once and ends the loop, "2" ends
\* it without a call, any other line is passed to save_csv and the prompt
\* follows again whatever the call's outcome; the loop ends exactly at the
\* first "1" or "2".
C7_LoopInvariant ==
    /\ calls = CallsOf(inputs)
    /\ \A i \in 1..(Len(inputs) - 1) : ~Terminator(inputs[i])
    /\ pc = "done" => inputs # <<>> /\ Terminator(LastInput)
    /\ pc = "input" => inputs = <<>> \/ ~Terminator(LastInput)

C7_LoopStep ==
    pc = "while" =>
        pc' = IF Terminator(LastInput) THEN "done" ELSE "input"

C8_TeamsColumns ==
    Succeeded =>
        /\ TeamsFile.columns
              = <<"Team Number", "Advisor", "Problem", "Ranking", "Institution ID">>
        /\ \A i \in 1..Len(TeamsFile.rows) :
              DOMAIN TeamsFile.rows[i]
                  = {"Team Number", "Advisor", "Problem", "Ranking", "Institution ID"}

\* The rows are normalised: from the step after the column loop to the return.
Normalized == pc \in {"institutions", "teams"} \/ Succeeded

RawState(i) == loaded.rows[i]["State/Province"]
OutState(i) == data_2015.rows[i]["State/Province"]

\* C9: a missing State/Province cell becomes "Unknown"; a cell whose trimmed
\* text has 2 characters and in upper case is a key of state_abbreviations
\* becomes the full name; every other cell is its trimmed text, case kept.
C9_StateCells ==
    Normalized =>
        \A i \in 1..Len(loaded.rows) :
            IF RawState(i) = NaN THEN OutState(i) = "Unknown"
            ELSE IF Len(strip(RawState(i))) = 2
                    /\ upper(strip(RawState(i))) \in DOMAIN state_abbreviations
            THEN OutState(i) = state_abbreviations[upper(strip(RawState(i)))]
            ELSE OutState(i) = strip(RawState(i))

\* The cells of the model's tables, each with the value the claim gives it.
C9_Examples ==
    Normalized =>
        \A i \in 1..Len(loaded.rows) :
            /\ RawState(i) = "CA" => OutState(i) = "California"
            /\ RawState(i) = "ca" => OutState(i) = "California"
            /\ RawState(i) = " Ca " => OutState(i) = "California"
            /\ RawState(i) = " new York " => OutState(i) = "new York"
            /\ RawState(i) = "Xx" => OutState(i) = "Xx"
            /\ RawState(i) = "bc" => OutState(i) = "bc"

C9_StateNormalisation == C9_StateCells /\ C9_Examples

C9_Witness ==
    /\ Normalized
    /\ \E i \in 1..Len(loaded.rows) : RawState(i) = NaN /\ OutState(i) = "Unknown"
    /\ \E i \in 1..Len(loaded.rows) : RawState(i) = " Ca " /\ OutState(i) = "California"
    /\ \E i \in 1..Len(loaded.rows) : RawState(i) = "bc" /\ OutState(i) = "bc"

\* The names written to the institution output, in order.
WrittenNames == Column(InstitutionsFile.rows, "Institution Name")

\* C10: fuzzy_grouping run again on the names of the institution output maps
\* every name to itself.
C10_GroupingIdempotent ==
    Succeeded =>
        GroupAll(WrittenNames) = [k \in 1..Len(WrittenNames) |->
                                     <<WrittenNames[k], WrittenNames[k]>>]

\* The first run merged a variant, kept two representatives, and wrote them
\* in a form that differs from the input text.
C10_Witness ==
    /\ Succeeded
    /\ Len(WrittenNames) = 2
    /\ Len(names) = 3
    /\ \A k \in 1..2 : \A j \in 1..3 : WrittenNames[k] # names[j]
====
